---------------------------- MODULE Spec2Model ----------------------------
(***************************************************************************)
(* A model of the lexical core of the spell checker: the layered           *)
(* configuration (src/src/config.rs), the tokenizer (src/src/tokens.rs)    *)
(* and the scan of one file (src/src/lib.rs).                              *)
(*                                                                         *)
(* Option<T> is modelled as a sequence of length at most one: None is <<>> *)
(* and Some(v) is <<v>>.  A HashMap is modelled as the set of its          *)
(* <<key, value>> entries.                                                 *)
(***************************************************************************)
EXTENDS Integers, Sequences, FiniteSets, TLC

VARIABLES
    cfg,        \* the Config being built (`self` of the config methods)
    base,       \* the value of cfg before the last operation
    overlay,    \* the `source` argument of the last Config::update
    effective,  \* the values last returned by the Walk accessors
    latest,     \* per Walk flag, what the overlays applied so far ask of it
    updates,    \* how many overlays have been applied in a row
    overlay2,   \* the `source` of a second Config::update that follows overlay
    merged,     \* base updated once, with overlay already updated by overlay2
    buffer,     \* the buffer given to the tokenizer
    symbols,    \* the Symbols that Symbol::parse yielded from buffer
    sym,        \* the Symbol last split
    words,      \* the outcome of the last split: its Words, or a panic
    made,       \* the last call of a strict constructor and its outcome
    file,       \* the file at `path`: whether it opens and reads, its bytes
    dictionary, \* the correction capability given to process_file
    pc,         \* where process_file stands
    file_buffer, \* `buffer` of process_file: the bytes read
    line_idx,   \* the lines of file_buffer already scanned
    token_idx,  \* the Symbols of the current line already handled
    reported,   \* the Messages handed to `report`, in order
    returned,   \* what process_file returned
    op          \* the last operation applied

cfgVars == <<cfg, base, overlay, effective, latest, updates, overlay2, merged>>

tokenVars == <<buffer, symbols, sym, words, made>>

scanVars ==
    <<file, dictionary, pc, file_buffer, line_idx, token_idx, reported, returned>>

vars == <<cfgVars, tokenVars, scanVars, op>>

---------------------------------------------------------------------------
(* Option<T> *)

None == <<>>

Some(v) == <<v>>

IsSome(o) == o # None

\* Option::unwrap_or
UnwrapOr(o, d) == IF o # None THEN o[1] ELSE d

\* Option::or
OptOr(a, b) == IF a # None THEN a ELSE b

OptBool == {None, Some(TRUE), Some(FALSE)}

---------------------------------------------------------------------------
(* Walk: config.rs 46-125 *)

WalkFields ==
    {"ignore_hidden", "ignore_files", "ignore_dot", "ignore_vcs",
     "ignore_global", "ignore_parent"}

Walk == [WalkFields -> OptBool]

\* #[derive(Default)]: every field None
Walk_default == [f \in WalkFields |-> None]

Walk_ignore_hidden(self) == UnwrapOr(self.ignore_hidden, TRUE)

Walk_ignore_dot(self) == UnwrapOr(OptOr(self.ignore_dot, self.ignore_files), TRUE)

Walk_ignore_vcs(self) == UnwrapOr(OptOr(self.ignore_vcs, self.ignore_files), TRUE)

\* Mutant of Walk::ignore_global: the chain skips ignore_vcs.
Walk_ignore_global_skip_vcs(self) ==
    UnwrapOr(OptOr(self.ignore_global, self.ignore_files), TRUE)

Walk_ignore_global(self) ==
    UnwrapOr(OptOr(OptOr(self.ignore_global, self.ignore_vcs), self.ignore_files), TRUE)

Walk_ignore_parent(self) == UnwrapOr(OptOr(self.ignore_parent, self.ignore_files), TRUE)

Walk_from_defaults ==
    LET empty == Walk_default
    IN  [ignore_hidden |-> Some(Walk_ignore_hidden(empty)),
         ignore_files  |-> Some(TRUE),
         ignore_dot    |-> Some(Walk_ignore_dot(empty)),
         ignore_vcs    |-> Some(Walk_ignore_vcs(empty)),
         ignore_global |-> Some(Walk_ignore_global(empty)),
         ignore_parent |-> Some(Walk_ignore_parent(empty))]

\* Mutant of Walk::update: a per-field right-biased merge with no resets.
Walk_update_no_reset(self, source) ==
    [f \in WalkFields |-> IF IsSome(source[f]) THEN source[f] ELSE self[f]]

\* Mutant of Walk::update: ignore_global is copied before the ignore_vcs block
\* clears it.
Walk_update_global_first(self, source) ==
    LET s1 == [f \in WalkFields |->
                  IF IsSome(source.ignore_files) /\ f \in {"ignore_dot", "ignore_vcs",
                                                          "ignore_global", "ignore_parent"}
                  THEN None ELSE self[f]]
        s2 == [f \in WalkFields |->
                  IF f # "ignore_vcs" /\ IsSome(source[f]) THEN source[f] ELSE s1[f]]
    IN  IF IsSome(source.ignore_vcs)
        THEN [s2 EXCEPT !.ignore_vcs = source.ignore_vcs, !.ignore_global = None]
        ELSE s2

\* Mutant of Walk::update: the ignore_vcs block does not clear ignore_global.
Walk_update_vcs_keeps_global(self, source) ==
    LET s1 == IF IsSome(source.ignore_hidden)
              THEN [self EXCEPT !.ignore_hidden = source.ignore_hidden]
              ELSE self
        s2 == IF IsSome(source.ignore_files)
              THEN [s1 EXCEPT !.ignore_files = source.ignore_files,
                              !.ignore_dot = None,
                              !.ignore_vcs = None,
                              !.ignore_global = None,
                              !.ignore_parent = None]
              ELSE s1
        s3 == [f \in WalkFields |->
                  IF f \in {"ignore_dot", "ignore_vcs", "ignore_global", "ignore_parent"}
                     /\ IsSome(source[f])
                  THEN source[f] ELSE s2[f]]
    IN  s3

\* Mutant of Walk::update: the ignore_files block resets the finer fields only
\* when it changes the value of ignore_files.
Walk_update_reset_on_change(self, source) ==
    LET s1 == IF IsSome(source.ignore_hidden)
              THEN [self EXCEPT !.ignore_hidden = source.ignore_hidden]
              ELSE self
        s2 == IF IsSome(source.ignore_files) /\ source.ignore_files # s1.ignore_files
              THEN [s1 EXCEPT !.ignore_files = source.ignore_files,
                              !.ignore_dot = None,
                              !.ignore_vcs = None,
                              !.ignore_global = None,
                              !.ignore_parent = None]
              ELSE s1
        s3 == IF IsSome(source.ignore_dot)
              THEN [s2 EXCEPT !.ignore_dot = source.ignore_dot]
              ELSE s2
        s4 == IF IsSome(source.ignore_vcs)
              THEN [s3 EXCEPT !.ignore_vcs = source.ignore_vcs,
                              !.ignore_global = None]
              ELSE s3
        s5 == IF IsSome(source.ignore_global)
              THEN [s4 EXCEPT !.ignore_global = source.ignore_global]
              ELSE s4
    IN  IF IsSome(source.ignore_parent)
        THEN [s5 EXCEPT !.ignore_parent = source.ignore_parent]
        ELSE s5

\* Mutant of Walk::update: a coarse field resets the finer ones only when it
\* overrides a value that was already set.
Walk_update_reset_on_override(self, source) ==
    LET s1 == IF IsSome(source.ignore_hidden)
              THEN [self EXCEPT !.ignore_hidden = source.ignore_hidden]
              ELSE self
        s2 == IF IsSome(source.ignore_files)
              THEN IF IsSome(s1.ignore_files)
                   THEN [s1 EXCEPT !.ignore_files = source.ignore_files,
                                   !.ignore_dot = None,
                                   !.ignore_vcs = None,
                                   !.ignore_global = None,
                                   !.ignore_parent = None]
                   ELSE [s1 EXCEPT !.ignore_files = source.ignore_files]
              ELSE s1
        s3 == IF IsSome(source.ignore_dot)
              THEN [s2 EXCEPT !.ignore_dot = source.ignore_dot]
              ELSE s2
        s4 == IF IsSome(source.ignore_vcs)
              THEN IF IsSome(s3.ignore_vcs)
                   THEN [s3 EXCEPT !.ignore_vcs = source.ignore_vcs,
                                   !.ignore_global = None]
                   ELSE [s3 EXCEPT !.ignore_vcs = source.ignore_vcs]
              ELSE s3
        s5 == IF IsSome(source.ignore_global)
              THEN [s4 EXCEPT !.ignore_global = source.ignore_global]
              ELSE s4
    IN  IF IsSome(source.ignore_parent)
        THEN [s5 EXCEPT !.ignore_parent = source.ignore_parent]
        ELSE s5

\* Walk::update: the six `if let Some(..)` blocks, in the order of the code.
Walk_update(self, source) ==
    LET s1 == IF IsSome(source.ignore_hidden)
              THEN [self EXCEPT !.ignore_hidden = source.ignore_hidden]
              ELSE self
        s2 == IF IsSome(source.ignore_files)
              THEN [s1 EXCEPT !.ignore_files = source.ignore_files,
                              !.ignore_dot = None,
                              !.ignore_vcs = None,
                              !.ignore_global = None,
                              !.ignore_parent = None]
              ELSE s1
        s3 == IF IsSome(source.ignore_dot)
              THEN [s2 EXCEPT !.ignore_dot = source.ignore_dot]
              ELSE s2
        s4 == IF IsSome(source.ignore_vcs)
              THEN [s3 EXCEPT !.ignore_vcs = source.ignore_vcs,
                              !.ignore_global = None]
              ELSE s3
        s5 == IF IsSome(source.ignore_global)
              THEN [s4 EXCEPT !.ignore_global = source.ignore_global]
              ELSE s4
    IN  IF IsSome(source.ignore_parent)
        THEN [s5 EXCEPT !.ignore_parent = source.ignore_parent]
        ELSE s5

---------------------------------------------------------------------------
(* TokenizerConfig: config.rs 200-269 *)

\* The identifier character sets the model draws from (KString values).
StrValues == {"_", "_'"}

OptStr == {None} \cup {Some(s) : s \in StrValues}

TokenizerConfig ==
    [ignore_hex : OptBool,
     identifier_leading_digits : OptBool,
     identifier_leading_chars : OptStr,
     identifier_include_digits : OptBool,
     identifier_include_chars : OptStr]

TokenizerConfig_default ==
    [ignore_hex |-> None,
     identifier_leading_digits |-> None,
     identifier_leading_chars |-> None,
     identifier_include_digits |-> None,
     identifier_include_chars |-> None]

TokenizerConfig_ignore_hex(self) == UnwrapOr(self.ignore_hex, TRUE)

TokenizerConfig_identifier_leading_digits(self) ==
    UnwrapOr(self.identifier_leading_digits, FALSE)

TokenizerConfig_identifier_leading_chars(self) ==
    UnwrapOr(self.identifier_leading_chars, "_")

TokenizerConfig_identifier_include_digits(self) ==
    UnwrapOr(self.identifier_include_digits, TRUE)

TokenizerConfig_identifier_include_chars(self) ==
    UnwrapOr(self.identifier_include_chars, "_'")

TokenizerConfig_from_defaults ==
    LET empty == TokenizerConfig_default
    IN  [ignore_hex |-> Some(TokenizerConfig_ignore_hex(empty)),
         identifier_leading_digits |->
             Some(TokenizerConfig_identifier_leading_digits(empty)),
         identifier_leading_chars |->
             Some(TokenizerConfig_identifier_leading_chars(empty)),
         identifier_include_digits |->
             Some(TokenizerConfig_identifier_include_digits(empty)),
         identifier_include_chars |->
             Some(TokenizerConfig_identifier_include_chars(empty))]

TokenizerConfig_update(self, source) ==
    LET s1 == IF IsSome(source.ignore_hex)
              THEN [self EXCEPT !.ignore_hex = source.ignore_hex]
              ELSE self
        s2 == IF IsSome(source.identifier_leading_digits)
              THEN [s1 EXCEPT !.identifier_leading_digits =
                                  source.identifier_leading_digits]
              ELSE s1
        s3 == IF IsSome(source.identifier_leading_chars)
              THEN [s2 EXCEPT !.identifier_leading_chars =
                                  source.identifier_leading_chars]
              ELSE s2
        s4 == IF IsSome(source.identifier_include_digits)
              THEN [s3 EXCEPT !.identifier_include_digits =
                                  source.identifier_include_digits]
              ELSE s3
    IN  IF IsSome(source.identifier_include_chars)
        THEN [s4 EXCEPT !.identifier_include_chars =
                            source.identifier_include_chars]
        ELSE s4

---------------------------------------------------------------------------
(* Locale and DictConfig: config.rs 271-370 *)

Locale == {"En", "EnUs", "EnGb", "EnCa", "EnAu"}

\* impl Default for Locale
Locale_default == "En"

OptLocale == {None} \cup {Some(l) : l \in Locale}

\* The keys and values the model's maps draw from.
MapKeys == {"teh", "hte"}

MapValues == {"the", "he"}

\* Every HashMap over MapKeys and MapValues, as its set of entries.
HashMaps ==
    {m \in SUBSET (MapKeys \X MapValues) :
        \A e1 \in m, e2 \in m : e1[1] = e2[1] => e1 = e2}

HashMap_keys(m) == {e[1] : e \in m}

HashMap_get(m, k) ==
    IF k \in HashMap_keys(m) THEN Some((CHOOSE e \in m : e[1] = k)[2]) ELSE None

\* Mutant of HashMap::insert: an existing entry is kept (entry().or_insert()).
HashMap_insert_keep(m, k, v) ==
    IF \E e \in m : e[1] = k THEN m ELSE m \cup {<<k, v>>}

\* HashMap::insert: the entry of an equal key, if any, is replaced.
HashMap_insert(m, k, v) == {e \in m : e[1] # k} \cup {<<k, v>>}

\* Extend::extend for HashMap: insert every item the iterator yields, in the
\* order it yields them.
RECURSIVE HashMap_extend(_, _)
HashMap_extend(m, items) ==
    IF items = {}
    THEN m
    ELSE LET e == CHOOSE x \in items : TRUE
         IN  HashMap_extend(HashMap_insert(m, e[1], e[2]), items \ {e})

DictConfig == [locale : OptLocale, extend_identifiers : HashMaps, extend_words : HashMaps]

DictConfig_default == [locale |-> None, extend_identifiers |-> {}, extend_words |-> {}]

DictConfig_locale(self) == UnwrapOr(self.locale, Locale_default)

DictConfig_from_defaults ==
    LET empty == DictConfig_default
    IN  [locale |-> Some(DictConfig_locale(empty)),
         extend_identifiers |-> {},
         extend_words |-> {}]

DictConfig_update(self, source) ==
    [locale |-> IF IsSome(source.locale) THEN source.locale ELSE self.locale,
     extend_identifiers |->
         HashMap_extend(self.extend_identifiers, source.extend_identifiers),
     extend_words |-> HashMap_extend(self.extend_words, source.extend_words)]

---------------------------------------------------------------------------
(* EngineConfig: config.rs 127-198 *)

EngineConfig_default ==
    [binary |-> None, check_filename |-> None, check_file |-> None,
     tokenizer |-> None, dict |-> None]

EngineConfig_binary(self) == UnwrapOr(self.binary, FALSE)

EngineConfig_check_filename(self) == UnwrapOr(self.check_filename, TRUE)

EngineConfig_check_file(self) == UnwrapOr(self.check_file, TRUE)

\* Mutant of EngineConfig::from_defaults: the sections are defaulted with
\* unwrap_or_default() instead of their from_defaults().
EngineConfig_from_defaults_empty_sections ==
    LET empty == EngineConfig_default
    IN  [binary |-> Some(EngineConfig_binary(empty)),
         check_filename |-> Some(EngineConfig_check_filename(empty)),
         check_file |-> Some(EngineConfig_check_file(empty)),
         tokenizer |-> Some(UnwrapOr(empty.tokenizer, TokenizerConfig_default)),
         dict |-> Some(UnwrapOr(empty.dict, DictConfig_default))]

EngineConfig_from_defaults ==
    LET empty == EngineConfig_default
    IN  [binary |-> Some(EngineConfig_binary(empty)),
         check_filename |-> Some(EngineConfig_check_filename(empty)),
         check_file |-> Some(EngineConfig_check_file(empty)),
         tokenizer |-> Some(UnwrapOr(empty.tokenizer, TokenizerConfig_from_defaults)),
         dict |-> Some(UnwrapOr(empty.dict, DictConfig_from_defaults))]

\* Mutant of EngineConfig::update: a section of the source replaces the
\* section of self instead of being merged into it.
EngineConfig_update_replace_sections(self, source) ==
    [binary |-> OptOr(source.binary, self.binary),
     check_filename |-> OptOr(source.check_filename, self.check_filename),
     check_file |-> OptOr(source.check_file, self.check_file),
     tokenizer |-> OptOr(source.tokenizer, self.tokenizer),
     dict |-> IF IsSome(source.dict)
              THEN Some(DictConfig_update(UnwrapOr(self.dict, DictConfig_default),
                                          source.dict[1]))
              ELSE self.dict]

EngineConfig_update(self, source) ==
    LET s1 == IF IsSome(source.binary)
              THEN [self EXCEPT !.binary = source.binary]
              ELSE self
        s2 == IF IsSome(source.check_filename)
              THEN [s1 EXCEPT !.check_filename = source.check_filename]
              ELSE s1
        s3 == IF IsSome(source.check_file)
              THEN [s2 EXCEPT !.check_file = source.check_file]
              ELSE s2
        s4 == IF IsSome(source.tokenizer)
              THEN LET tokenizer == UnwrapOr(s3.tokenizer, TokenizerConfig_default)
                   IN  [s3 EXCEPT !.tokenizer =
                           Some(TokenizerConfig_update(tokenizer, source.tokenizer[1]))]
              ELSE s3
    IN  IF IsSome(source.dict)
        THEN LET dict == UnwrapOr(s4.dict, DictConfig_default)
             IN  [s4 EXCEPT !.dict = Some(DictConfig_update(dict, source.dict[1]))]
        ELSE s4

---------------------------------------------------------------------------
(* Config: config.rs 3-44 *)

Config_default == [files |-> Walk_default, default |-> EngineConfig_default]

Config_from_defaults ==
    [files |-> Walk_from_defaults, default |-> EngineConfig_from_defaults]

\* Mutant of Config::update: only the files section is updated.
Config_update_files_only(self, source) ==
    [files |-> Walk_update(self.files, source.files), default |-> self.default]

Config_update(self, source) ==
    [files |-> Walk_update(self.files, source.files),
     default |-> EngineConfig_update(self.default, source.default)]

---------------------------------------------------------------------------
(* Characters.  A buffer is a sequence of characters, each named by a      *)
(* string: an ASCII character by itself, and a few characters of more than *)
(* one byte by a name:                                                     *)
(*   "e_acute"  U+00E9, a lowercase letter, 2 bytes                        *)
(*   "zhong"    U+4E2D, an alphabetic character without case, 3 bytes      *)
(*   "arabic3"  U+0663, a decimal digit that is not ASCII, 2 bytes         *)
(*   "acute"    U+0301, a combining mark: a word character (\w) that is    *)
(*              neither alphabetic nor a digit nor "_", 2 bytes            *)
(* Offsets are byte offsets, as in the code.                               *)

LowerAscii ==
    {"a", "b", "c", "d", "e", "f", "g", "h", "i", "j", "k", "l", "m",
     "n", "o", "p", "q", "r", "s", "t", "u", "v", "w", "x", "y", "z"}

UpperAscii ==
    {"A", "B", "C", "D", "E", "F", "G", "H", "I", "J", "K", "L", "M",
     "N", "O", "P", "Q", "R", "S", "T", "U", "V", "W", "X", "Y", "Z"}

DigitAscii == {"0", "1", "2", "3", "4", "5", "6", "7", "8", "9"}

\* char::len_utf8
len_utf8(c) ==
    IF c \in {"e_acute", "arabic3", "acute"} THEN 2
    ELSE IF c = "zhong" THEN 3
    ELSE 1

\* char::is_lowercase
is_lowercase(c) == c \in LowerAscii \cup {"e_acute"}

\* char::is_uppercase
is_uppercase(c) == c \in UpperAscii

\* char::is_ascii_digit
is_ascii_digit(c) == c \in DigitAscii

\* \p{Alphabetic}
Alphabetic(c) == c \in LowerAscii \cup UpperAscii \cup {"e_acute", "zhong"}

\* \d: a decimal digit of any script
DecimalDigit(c) == c \in DigitAscii \cup {"arabic3"}

\* Mutant of the group of SPLIT: the pattern \b\w+\b.
IsMember_any_word_char(c) ==
    Alphabetic(c) \/ DecimalDigit(c) \/ c = "_" \/ c = "acute"

\* Mutant of the group of SPLIT: the pattern \b(\p{Alphabetic}|\d)+\b.
IsMember_no_underscore(c) == Alphabetic(c) \/ DecimalDigit(c)

\* The group (\p{Alphabetic}|\d|_) of the pattern SPLIT.
IsMember(c) == Alphabetic(c) \/ DecimalDigit(c) \/ c = "_"

\* \w, which decides \b: alphabetic, mark, decimal digit, connector
\* punctuation, join control.
IsWordChar(c) == Alphabetic(c) \/ DecimalDigit(c) \/ c = "_" \/ c = "acute"

\* The byte index of the i-th character of s (i in 1..Len(s)+1): what
\* char_indices and Match::start count.
RECURSIVE ByteOffset(_, _)
ByteOffset(s, i) == IF i <= 1 THEN 0 ELSE ByteOffset(s, i - 1) + len_utf8(s[i - 1])

\* str::len, in bytes
ByteLen(s) == ByteOffset(s, Len(s) + 1)

---------------------------------------------------------------------------
(* Symbol::parse: tokens.rs 33-43.  SPLIT is \b(\p{Alphabetic}|\d|_)+\b,   *)
(* searched with find_iter: leftmost match first, the group greedy, the    *)
(* next search starting where the last match ended.                        *)

\* \b before the i-th character of s (i in 1..Len(s)+1).
IsWordBoundary(s, i) ==
    LET before == i > 1 /\ IsWordChar(s[i - 1])
        after == i <= Len(s) /\ IsWordChar(s[i])
    IN  before # after

\* Where the greedy group stops when it starts at i: the first index from i
\* on that holds no member.
RECURSIVE GroupEnd(_, _)
GroupEnd(s, i) == IF i <= Len(s) /\ IsMember(s[i]) THEN GroupEnd(s, i + 1) ELSE i

\* The end (exclusive) of the match that starts at i, or 0 when none does:
\* the group takes all it can and gives characters back until \b holds.
MatchEnd(s, i) ==
    LET ends == {e \in (i + 1)..GroupEnd(s, i) : IsWordBoundary(s, e)}
    IN  IF IsWordBoundary(s, i) /\ ends # {}
        THEN CHOOSE e \in ends : \A x \in ends : x <= e
        ELSE 0

Symbol_new_unchecked(token, offset) == [token |-> token, offset |-> offset]

\* find_iter from the i-th character on, each match mapped to a Symbol.  The
\* bytes of a match are whole characters, so from_utf8 never fails on one.
RECURSIVE FindIter(_, _)
FindIter(s, i) ==
    IF i > Len(s) THEN <<>>
    ELSE LET e == MatchEnd(s, i)
         IN  IF e # 0
             THEN <<Symbol_new_unchecked(SubSeq(s, i, e - 1), ByteOffset(s, i))>>
                      \o FindIter(s, e)
             ELSE FindIter(s, i + 1)

Symbol_parse(content) == FindIter(content, 1)

---------------------------------------------------------------------------
(* split_symbol: tokens.rs 100-183 *)

\* WordMode::classify
classify(c) ==
    IF is_lowercase(c) THEN "Lowercase"
    ELSE IF is_uppercase(c) THEN "Uppercase"
    ELSE IF is_ascii_digit(c) THEN "Number"
    ELSE "Boundary"

\* str::is_char_boundary
is_char_boundary(s, b) == \E k \in 1..(Len(s) + 1) : ByteOffset(s, k) = b

\* &s[from..to] panics unless from <= to and both lie on character boundaries.
SliceOk(s, from, to) ==
    from <= to /\ is_char_boundary(s, from) /\ is_char_boundary(s, to)

\* &s[from..to], by bytes
Slice(s, from, to) ==
    LET first == CHOOSE k \in 1..(Len(s) + 1) : ByteOffset(s, k) = from
        last == CHOOSE k \in 1..(Len(s) + 1) : ByteOffset(s, k) = to
    IN  SubSeq(s, first, last - 1)

Word_new_unchecked(token, offset) == [token |-> token, offset |-> offset]

\* The outcome of a call that panicked: no value is returned.
Panicked == [panicked |-> TRUE, words |-> <<>>]

\* Mutant of the match: the acronym arm does not look at start_mode.
WordBreak_any_start_mode(start_mode, cur_mode, next_mode) ==
    IF \/ next_mode = "Boundary"
       \/ cur_mode = "Lowercase" /\ next_mode = "Number"
       \/ cur_mode = "Uppercase" /\ next_mode = "Number"
       \/ cur_mode = "Number" /\ next_mode = "Lowercase"
       \/ cur_mode = "Number" /\ next_mode = "Uppercase"
       \/ cur_mode = "Lowercase" /\ next_mode = "Uppercase"
    THEN "after"
    ELSE IF cur_mode = "Uppercase" /\ next_mode = "Lowercase"
    THEN "before"
    ELSE "none"

\* The arms of `match (start_mode, cur_mode, next_mode)`, first match first:
\* the word ends after the current character, before it, or not here.
WordBreak(start_mode, cur_mode, next_mode) ==
    IF \/ next_mode = "Boundary"
       \/ cur_mode = "Lowercase" /\ next_mode = "Number"
       \/ cur_mode = "Uppercase" /\ next_mode = "Number"
       \/ cur_mode = "Number" /\ next_mode = "Lowercase"
       \/ cur_mode = "Number" /\ next_mode = "Uppercase"
       \/ cur_mode = "Lowercase" /\ next_mode = "Uppercase"
    THEN "after"
    ELSE IF /\ start_mode = "Uppercase"
            /\ cur_mode = "Uppercase"
            /\ next_mode = "Lowercase"
    THEN "before"
    ELSE "none"

\* The `while let` loop from the k-th character on; the characters before it
\* have left start, start_mode and result.
RECURSIVE SplitLoop(_, _, _, _, _, _)
SplitLoop(symbol, offset, k, start, start_mode, result) ==
    IF k > Len(symbol)
    THEN [panicked |-> FALSE, words |-> result]
    ELSE
      LET i == ByteOffset(symbol, k)
          cur_mode == classify(symbol[k])
      IN  IF cur_mode = "Boundary"
          THEN SplitLoop(symbol, offset, k + 1,
                         IF start = i THEN start + 1 ELSE start, start_mode, result)
          ELSE IF k < Len(symbol)
          THEN
            LET next_i == ByteOffset(symbol, k + 1)
                next_mode == classify(symbol[k + 1])
            IN  IF WordBreak(start_mode, cur_mode, next_mode) = "after"
                THEN \* cur_mode is last of current word
                     IF SliceOk(symbol, start, next_i)
                     THEN SplitLoop(symbol, offset, k + 1, next_i, "Boundary",
                                    Append(result,
                                           Word_new_unchecked(Slice(symbol, start, next_i),
                                                              start + offset)))
                     ELSE Panicked
                ELSE IF WordBreak(start_mode, cur_mode, next_mode) = "before"
                THEN \* cur_mode is start of next word
                     IF SliceOk(symbol, start, i)
                     THEN SplitLoop(symbol, offset, k + 1, i, "Boundary",
                                    Append(result,
                                           Word_new_unchecked(Slice(symbol, start, i),
                                                              start + offset)))
                     ELSE Panicked
                ELSE \* No word boundary
                     SplitLoop(symbol, offset, k + 1, start, cur_mode, result)
          ELSE \* Collect trailing characters as a word
               IF SliceOk(symbol, start, ByteLen(symbol))
               THEN [panicked |-> FALSE,
                     words |-> Append(result,
                                      Word_new_unchecked(
                                          Slice(symbol, start, ByteLen(symbol)),
                                          start + offset))]
               ELSE Panicked

split_symbol(symbol, offset) == SplitLoop(symbol, offset, 1, 0, "Boundary", <<>>)

\* Symbol::split
Symbol_split(self) == split_symbol(self.token, self.offset)

---------------------------------------------------------------------------
(* The strict constructors: tokens.rs 8-27 and 65-85.  A call returns      *)
(* Ok(value) or Err(message), or it panics and returns nothing.            *)

Ok(value) == [kind |-> "Ok", value |-> Some(value), err |-> ""]

\* failure::format_err!: the message up to the quoted token
Err(message) == [kind |-> "Err", value |-> None, err |-> message]

Panic == [kind |-> "Panic", value |-> None, err |-> ""]

\* Symbol::new
Symbol_new(token, offset) ==
    LET itr == Symbol_parse(token)
    IN  IF itr = <<>> THEN Err("Invalid symbol (none found)")
        ELSE IF itr[1].offset # 0 THEN Err("Invalid symbol (padding found)")
        ELSE IF Len(itr) > 1 THEN Err("Invalid symbol (contains more than one)")
        ELSE Ok([itr[1] EXCEPT !.offset = @ + offset])

\* Word::new
Word_new(token, offset) ==
    LET checked == Symbol_new(token, offset)
        itr == split_symbol(token, 0)
    IN  IF checked.kind = "Err" THEN checked
        ELSE IF itr.panicked THEN Panic
        ELSE IF itr.words = <<>> THEN Err("Invalid word (none found)")
        ELSE IF itr.words[1].offset # 0 THEN Err("Invalid word (padding found)")
        ELSE IF Len(itr.words) > 1 THEN Err("Invalid word (contains more than one)")
        ELSE Ok([itr.words[1] EXCEPT !.offset = @ + offset])

---------------------------------------------------------------------------
(* The configurations the model draws its inputs from.  Config::update      *)
(* works section by section, so the inputs vary one section exhaustively    *)
(* at a time (every Walk; every triple of engine flags; every tokenizer     *)
(* section; every dictionary section over MapKeys and MapValues), and a     *)
(* few documents set all the sections at once.                              *)

WalkConfigs == {[files |-> w, default |-> EngineConfig_default] : w \in Walk}

FlagConfigs ==
    {[files |-> Walk_default,
      default |-> [EngineConfig_default EXCEPT
                      !.binary = b, !.check_filename = n, !.check_file = f]] :
        b \in OptBool, n \in OptBool, f \in OptBool}

TokenizerConfigs ==
    {[files |-> Walk_default,
      default |-> [EngineConfig_default EXCEPT !.tokenizer = t]] :
        t \in {None} \cup {Some(x) : x \in TokenizerConfig}}

DictConfigs ==
    {[files |-> Walk_default,
      default |-> [EngineConfig_default EXCEPT !.dict = d]] :
        d \in {None} \cup {Some(x) : x \in DictConfig}}

MixedWalks ==
    {Walk_default,
     Walk_from_defaults,
     [Walk_default EXCEPT !.ignore_files = Some(FALSE), !.ignore_global = Some(TRUE)],
     [Walk_default EXCEPT !.ignore_hidden = Some(FALSE), !.ignore_vcs = Some(FALSE),
                          !.ignore_parent = Some(TRUE)]}

MixedEngines ==
    {EngineConfig_default,
     EngineConfig_from_defaults,
     [binary |-> Some(TRUE), check_filename |-> None, check_file |-> Some(FALSE),
      tokenizer |-> Some([TokenizerConfig_default EXCEPT
                             !.ignore_hex = Some(FALSE),
                             !.identifier_leading_chars = Some("_'")]),
      dict |-> Some([locale |-> Some("EnGb"),
                     extend_identifiers |-> {<<"teh", "he">>},
                     extend_words |-> {<<"hte", "the">>}])],
     [binary |-> None, check_filename |-> Some(FALSE), check_file |-> None,
      tokenizer |-> Some(TokenizerConfig_default),
      dict |-> Some([locale |-> None,
                     extend_identifiers |-> {<<"teh", "the">>, <<"hte", "the">>},
                     extend_words |-> {}])]}

MixedConfigs == {[files |-> w, default |-> e] : w \in MixedWalks, e \in MixedEngines}

\* The documents that may be layered over the configuration c.
Sources(c) ==
    (IF c \in WalkConfigs THEN WalkConfigs ELSE {})
        \cup (IF c \in FlagConfigs THEN FlagConfigs ELSE {})
        \cup (IF c \in TokenizerConfigs THEN TokenizerConfigs ELSE {})
        \cup (IF c \in DictConfigs THEN DictConfigs ELSE {})
        \cup (IF c \in MixedConfigs THEN MixedConfigs ELSE {})

\* What the five Walk accessors return on a Walk.
Effective(w) ==
    [ignore_hidden |-> Walk_ignore_hidden(w),
     ignore_dot |-> Walk_ignore_dot(w),
     ignore_vcs |-> Walk_ignore_vcs(w),
     ignore_global |-> Walk_ignore_global(w),
     ignore_parent |-> Walk_ignore_parent(w)]

---------------------------------------------------------------------------
(* Each specification below drives one part of the crate; the variables of *)
(* the other parts stay at these values.                                   *)

NoOverlays ==
    /\ latest = None
    /\ updates = 0
    /\ overlay2 = Config_default
    /\ merged = None

NoConfig ==
    /\ cfg = Config_default
    /\ base = Config_default
    /\ overlay = Config_default
    /\ effective = None
    /\ NoOverlays

NoTokens ==
    /\ buffer = <<>>
    /\ symbols = <<>>
    /\ sym = None
    /\ words = None
    /\ made = None

NoScan ==
    /\ file = None
    /\ dictionary = {}
    /\ pc = "idle"
    /\ file_buffer = <<>>
    /\ line_idx = 0
    /\ token_idx = 0
    /\ reported = <<>>
    /\ returned = None

---------------------------------------------------------------------------
(* The configuration as a state machine: a configuration is loaded         *)
(* (Init), and then either a document is layered over it (Update), it is   *)
(* replaced by the materialised defaults (FromDefaults), or its Walk flags *)
(* are resolved (Resolve); the document of an Update can be layered over   *)
(* the result a second time (UpdateAgain).                                 *)

InitConfig ==
    /\ cfg \in WalkConfigs \cup FlagConfigs \cup TokenizerConfigs
                 \cup DictConfigs \cup MixedConfigs
    /\ base = cfg
    /\ overlay = Config_default
    /\ effective = None
    /\ op = "new"
    /\ NoOverlays
    /\ NoTokens
    /\ NoScan

\* cfg.update(&source)
Update ==
    /\ op = "new"
    /\ \E source \in Sources(cfg) :
          /\ overlay' = source
          /\ cfg' = Config_update(cfg, source)
    /\ base' = cfg
    /\ op' = "update"
    /\ UNCHANGED <<effective, latest, updates, overlay2, merged,
                   tokenVars, scanVars>>

\* cfg = Config::from_defaults()
FromDefaults ==
    /\ op = "new"
    /\ cfg' = Config_from_defaults
    /\ base' = cfg
    /\ op' = "from_defaults"
    /\ UNCHANGED <<overlay, effective, latest, updates, overlay2, merged,
                   tokenVars, scanVars>>

\* cfg.files.ignore_hidden(), .ignore_dot(), .ignore_vcs(), .ignore_global(),
\* .ignore_parent()
Resolve ==
    /\ op \in {"new", "from_defaults"}
    /\ effective' = Some(Effective(cfg.files))
    /\ op' = IF op = "new" THEN "resolve" ELSE "resolve_defaults"
    /\ UNCHANGED <<cfg, base, overlay, latest, updates, overlay2, merged,
                   tokenVars, scanVars>>

\* cfg.update(&source) once more, with the source of the update before;
\* merged keeps the configuration the first update gave.
UpdateAgain ==
    /\ op = "update"
    /\ cfg' = Config_update(cfg, overlay)
    /\ merged' = Some(cfg)
    /\ op' = "update_again"
    /\ UNCHANGED <<base, overlay, effective, latest, updates, overlay2,
                   tokenVars, scanVars>>

NextConfig == Update \/ UpdateAgain \/ FromDefaults \/ Resolve

SpecConfig == InitConfig /\ [][NextConfig]_vars

---------------------------------------------------------------------------
(* The buffers the model draws its inputs from: every buffer of at most    *)
(* MaxLen characters over Alphabet, and the buffers of the crate's tests.  *)

MaxLen == 4

Alphabet == {"a", "B", "1", "_", " ", "e_acute", "zhong", "arabic3", "acute"}

BoundedBuffers == UNION {[1..n -> Alphabet] : n \in 0..MaxLen}

\* The inputs of test::split_symbol, each with the Words the test expects.
SplitCases ==
    {<<<<"l", "o", "w", "e", "r", "c", "a", "s", "e">>,
       <<<<"l", "o", "w", "e", "r", "c", "a", "s", "e">>>>>>,
     <<<<"C", "l", "a", "s", "s">>,
       <<<<"C", "l", "a", "s", "s">>>>>>,
     <<<<"M", "y", "C", "l", "a", "s", "s">>,
       <<<<"M", "y">>, <<"C", "l", "a", "s", "s">>>>>>,
     <<<<"M", "y", "C">>,
       <<<<"M", "y">>, <<"C">>>>>>,
     <<<<"H", "T", "M", "L">>,
       <<<<"H", "T", "M", "L">>>>>>,
     <<<<"P", "D", "F", "L", "o", "a", "d", "e", "r">>,
       <<<<"P", "D", "F">>, <<"L", "o", "a", "d", "e", "r">>>>>>,
     <<<<"A", "S", "t", "r", "i", "n", "g">>,
       <<<<"A">>, <<"S", "t", "r", "i", "n", "g">>>>>>,
     <<<<"S", "i", "m", "p", "l", "e", "X", "M", "L", "P", "a", "r", "s", "e", "r">>,
       <<<<"S", "i", "m", "p", "l", "e">>, <<"X", "M", "L">>, <<"P", "a", "r", "s", "e", "r">>>>>>,
     <<<<"v", "i", "m", "R", "P", "C", "P", "l", "u", "g", "i", "n">>,
       <<<<"v", "i", "m">>, <<"R", "P", "C">>, <<"P", "l", "u", "g", "i", "n">>>>>>,
     <<<<"G", "L", "1", "1", "V", "e", "r", "s", "i", "o", "n">>,
       <<<<"G", "L">>, <<"1", "1">>, <<"V", "e", "r", "s", "i", "o", "n">>>>>>,
     <<<<"9", "9", "B", "o", "t", "t", "l", "e", "s">>,
       <<<<"9", "9">>, <<"B", "o", "t", "t", "l", "e", "s">>>>>>,
     <<<<"M", "a", "y", "5">>,
       <<<<"M", "a", "y">>, <<"5">>>>>>,
     <<<<"B", "F", "G", "9", "0", "0", "0">>,
       <<<<"B", "F", "G">>, <<"9", "0", "0", "0">>>>>>}

TestBuffers ==
    {<<>>,
     <<"w", "o", "r", "d">>,
     <<"A", " ", "B">>,
     <<"A", ".", "B">>,
     <<"A", ":", ":", "B">>,
     <<"A", "_", "B">>} \cup {c[1] : c \in SplitCases}

Buffers == BoundedBuffers \cup TestBuffers

\* The `offset` arguments given to the strict constructors.
Offsets == {0, 7}

---------------------------------------------------------------------------
(* The tokenizer as a state machine: a buffer is given (InitTokens), its   *)
(* Symbols are extracted (Parse), and one of them is split into Words      *)
(* (Split).                                                                *)

InitTokens ==
    /\ buffer \in Buffers
    /\ symbols = <<>>
    /\ sym = None
    /\ words = None
    /\ made = None
    /\ op = "new"
    /\ NoConfig
    /\ NoScan

\* symbols = Symbol::parse(buffer).collect()
Parse ==
    /\ op = "new"
    /\ symbols' = Symbol_parse(buffer)
    /\ op' = "parse"
    /\ UNCHANGED <<buffer, sym, words, made, cfgVars, scanVars>>

\* words = symbol.split().collect(), for one of the Symbols parsed
Split ==
    /\ op = "parse"
    /\ \E n \in 1..Len(symbols) :
          /\ sym' = Some(symbols[n])
          /\ words' = Some(Symbol_split(symbols[n]))
    /\ op' = "split"
    /\ UNCHANGED <<buffer, symbols, made, cfgVars, scanVars>>

\* Symbol::new(buffer, offset)
NewSymbol ==
    /\ op = "new"
    /\ \E offset \in Offsets :
          made' = Some([call |-> "Symbol::new", token |-> buffer, offset |-> offset,
                        outcome |-> Symbol_new(buffer, offset)])
    /\ op' = "symbol_new"
    /\ UNCHANGED <<buffer, symbols, sym, words, cfgVars, scanVars>>

\* Word::new(buffer, offset)
NewWord ==
    /\ op = "new"
    /\ \E offset \in Offsets :
          made' = Some([call |-> "Word::new", token |-> buffer, offset |-> offset,
                        outcome |-> Word_new(buffer, offset)])
    /\ op' = "word_new"
    /\ UNCHANGED <<buffer, symbols, sym, words, cfgVars, scanVars>>

\* Word::new(word.token(), 0), for one of the Words the last split produced
Resplit ==
    /\ op = "split"
    /\ \E n \in 1..Len(words[1].words) :
          made' = Some([call |-> "Word::new", token |-> words[1].words[n].token,
                        offset |-> 0,
                        outcome |-> Word_new(words[1].words[n].token, 0)])
    /\ op' = "resplit"
    /\ UNCHANGED <<buffer, symbols, sym, words, cfgVars, scanVars>>

NextTokens == Parse \/ Split \/ NewSymbol \/ NewWord \/ Resplit

SpecTokens == InitTokens /\ [][NextTokens]_vars

---------------------------------------------------------------------------
(* process_file: lib.rs 14-44.  The file at `path` either fails to open,   *)
(* fails while it is read, or gives its bytes.  The Dictionary is the      *)
(* correction capability: a function from a word to an optional            *)
(* correction, modelled as the set of its <<word, correction>> entries.    *)

\* Dictionary::correct_str
Dictionary_correct_str(self, word) == HashMap_get(self, word)

\* grep_searcher::LineIter::new(b'\n', bytes): the lines of bytes in order,
\* each with the terminator that ends it; the last line may have none.
RECURSIVE LineIter(_)
LineIter(bytes) ==
    IF bytes = <<>> THEN <<>>
    ELSE LET ends == {k \in 1..Len(bytes) : bytes[k] = "\n"} \cup {Len(bytes)}
             end == CHOOSE e \in ends : \A x \in ends : e <= x
         IN  <<SubSeq(bytes, 1, end)>> \o LineIter(SubSeq(bytes, end + 1, Len(bytes)))

\* Mutant of the `?` operator: the error is dropped and the function goes on.
Question_ignored(ok, next) == [pc |-> next, returned |-> None]

\* The `?` operator on an io::Result: go on to `next`, or return the error.
Question(ok, next) ==
    IF ok THEN [pc |-> next, returned |-> None]
    ELSE [pc |-> "done", returned |-> Some(Err("io::Error"))]

\* Mutant of the Message: the line index is used as the line number.
NewMessage_zero_based_line(line, idx, token, correction) ==
    [path |-> "path", line |-> line, line_num |-> idx,
     col_num |-> token.offset, word |-> token.token, correction |-> correction]

\* Mutant of the Message: the column is counted from one.
NewMessage_col_from_one(line, idx, token, correction) ==
    [path |-> "path", line |-> line, line_num |-> idx + 1,
     col_num |-> token.offset + 1, word |-> token.token, correction |-> correction]

\* Mutant of the Message: the line number is not advanced with the lines.
NewMessage_first_line(line, idx, token, correction) ==
    [path |-> "path", line |-> line, line_num |-> 1,
     col_num |-> token.offset, word |-> token.token, correction |-> correction]

\* let line_num = line_idx + 1; ... report::Message { .. }, idx being line_idx
NewMessage(line, idx, token, correction) ==
    [path |-> "path", line |-> line, line_num |-> idx + 1,
     col_num |-> token.offset, word |-> token.token, correction |-> correction]

---------------------------------------------------------------------------
(* The files and dictionaries the model draws its inputs from: every file  *)
(* of at most MaxFileLen characters over FileAlphabet, and the file and    *)
(* dictionary of the example of the specification.                         *)

MaxFileLen == 4

FileAlphabet == {"a", "B", " ", "\n", "zhong"}

RendredLine ==
    <<"H", "T", "M", "L", " ", "i", "s", " ", "r", "e", "n", "d", "r", "e", "d",
      " ", "h", "e", "r", "e">>

RendredDictionary ==
    {<<<<"r", "e", "n", "d", "r", "e", "d">>, <<"r", "e", "n", "d", "e", "r", "e", "d">>>>}

FileContents == UNION {[1..n -> FileAlphabet] : n \in 0..MaxFileLen} \cup {RendredLine}

Files ==
    [status : {"ok", "open fails", "read fails"}, bytes : FileContents]

Dictionaries ==
    {{},
     {<<<<"a">>, <<"b">>>>},
     {<<<<"a">>, <<"b">>>>, <<<<"a", "B">>, <<"a", "b">>>>, <<<<"zhong", "a">>, <<"a">>>>},
     RendredDictionary}

---------------------------------------------------------------------------
(* process_file as a state machine: the file is opened (Open) and read to  *)
(* its end (Read); then the Symbols of each line are looked up one after   *)
(* the other (Token), line after line (NextLine), each correction found    *)
(* being reported at once; after the last line the function returns        *)
(* (Return).                                                               *)

InitScan ==
    /\ file \in Files
    /\ dictionary \in Dictionaries
    /\ pc = "open"
    /\ file_buffer = <<>>
    /\ line_idx = 0
    /\ token_idx = 0
    /\ reported = <<>>
    /\ returned = None
    /\ op = "new"
    /\ NoConfig
    /\ NoTokens

\* File::open(path)?
Open ==
    /\ pc = "open"
    /\ LET q == Question(file.status # "open fails", "read")
       IN  /\ pc' = q.pc
           /\ returned' = q.returned
    /\ op' = "open"
    /\ UNCHANGED <<file, dictionary, file_buffer, line_idx, token_idx, reported,
                   cfgVars, tokenVars>>

\* .read_to_end(&mut buffer)?  A read that fails leaves in the buffer the
\* bytes read before the error.
Read ==
    /\ pc = "read"
    /\ \E n \in 0..Len(file.bytes) :
          /\ file.status # "read fails" => n = Len(file.bytes)
          /\ file_buffer' = SubSeq(file.bytes, 1, n)
    /\ LET q == Question(file.status # "read fails", "scan")
       IN  /\ pc' = q.pc
           /\ returned' = q.returned
    /\ op' = "read"
    /\ UNCHANGED <<file, dictionary, line_idx, token_idx, reported,
                   cfgVars, tokenVars>>

\* One turn of `for token in tokens::Symbol::parse(line)`: the Symbol is
\* valid UTF-8 by construction, so from_utf8 succeeds on it.
Token ==
    /\ pc = "scan"
    /\ line_idx < Len(LineIter(file_buffer))
    /\ LET line == LineIter(file_buffer)[line_idx + 1]
           tokens == Symbol_parse(line)
       IN  /\ token_idx < Len(tokens)
           /\ LET token == tokens[token_idx + 1]
                  correction == Dictionary_correct_str(dictionary, token.token)
              IN  reported' =
                      IF IsSome(correction)
                      THEN Append(reported,
                                  NewMessage(line, line_idx, token, correction[1]))
                      ELSE reported
    /\ token_idx' = token_idx + 1
    /\ op' = "token"
    /\ UNCHANGED <<file, dictionary, pc, file_buffer, line_idx, returned,
                   cfgVars, tokenVars>>

\* The Symbols of the line are exhausted: the next turn of `for (line_idx,
\* line) in LineIter`.
NextLine ==
    /\ pc = "scan"
    /\ line_idx < Len(LineIter(file_buffer))
    /\ token_idx = Len(Symbol_parse(LineIter(file_buffer)[line_idx + 1]))
    /\ line_idx' = line_idx + 1
    /\ token_idx' = 0
    /\ op' = "next_line"
    /\ UNCHANGED <<file, dictionary, pc, file_buffer, reported, returned,
                   cfgVars, tokenVars>>

\* The lines are exhausted: Ok(())
Return ==
    /\ pc = "scan"
    /\ line_idx = Len(LineIter(file_buffer))
    /\ pc' = "done"
    /\ returned' = Some(Ok(<<>>))
    /\ op' = "return"
    /\ UNCHANGED <<file, dictionary, file_buffer, line_idx, token_idx, reported,
                   cfgVars, tokenVars>>

NextScan == Open \/ Read \/ Token \/ NextLine \/ Return

SpecScan == InitScan /\ [][NextScan]_vars

---------------------------------------------------------------------------
(* The fields of a configuration as a document shows them: the tokenizer   *)
(* and dictionary sections are flattened into the engine section, so a     *)
(* field of an absent section reads as unset and a map of one as empty.    *)

FinerFields == {"ignore_dot", "ignore_vcs", "ignore_global", "ignore_parent"}

FlagFields == {"binary", "check_filename", "check_file"}

TokenizerFields == DOMAIN TokenizerConfig_default

MapFields == {"extend_identifiers", "extend_words"}

TokenizerOf(c) == UnwrapOr(c.default.tokenizer, TokenizerConfig_default)

DictOf(c) == UnwrapOr(c.default.dict, DictConfig_default)

ScalarFields == WalkFields \cup FlagFields \cup TokenizerFields \cup {"locale"}

\* The scalar field f of the configuration c.
Scalar(c, f) ==
    IF f \in WalkFields THEN c.files[f]
    ELSE IF f \in FlagFields THEN c.default[f]
    ELSE IF f \in TokenizerFields THEN TokenizerOf(c)[f]
    ELSE DictOf(c).locale

\* The coarser Walk fields whose override resets the Walk field f.
Coarser(f) ==
    IF f \in {"ignore_dot", "ignore_vcs", "ignore_parent"} THEN {"ignore_files"}
    ELSE IF f = "ignore_global" THEN {"ignore_files", "ignore_vcs"}
    ELSE {}

\* The first set option of a precedence chain, else the compiled-in default.
RECURSIVE FirstSet(_, _)
FirstSet(chain, default) ==
    IF chain = <<>> THEN default
    ELSE IF Head(chain) # None THEN Head(chain)[1]
    ELSE FirstSet(Tail(chain), default)

---------------------------------------------------------------------------
(* Documents layered one after the other over an all-unset Walk:           *)
(* Config::update called up to MaxUpdates times in a row, each time with   *)
(* any Walk as the overlay's `files`.  The overlays themselves are not     *)
(* kept: `latest` records what they asked of each finer flag (asked) and   *)
(* the last value any of them gave to the flag's own field (own).          *)

MaxUpdates == 3

\* What the overlays ask of the finer flags once the overlay o has followed
\* overlays that asked `asked`: the value of the latest overlay that set
\* the flag or a flag coarser than it, the finer field first.
Asked(asked, o) ==
    [f \in FinerFields |->
        LET chain == IF f = "ignore_global"
                     THEN <<o.ignore_global, o.ignore_vcs, o.ignore_files>>
                     ELSE <<o[f], o.ignore_files>>
        IN  IF \E n \in 1..Len(chain) : IsSome(chain[n])
            THEN Some(FirstSet(chain, TRUE))
            ELSE asked[f]]

\* The last value given to each finer field itself, the overlay o included.
Own(own, o) == [f \in FinerFields |-> IF IsSome(o[f]) THEN o[f] ELSE own[f]]

InitWalk ==
    /\ cfg = Config_default
    /\ base = Config_default
    /\ overlay = Config_default
    /\ effective = None
    /\ latest = Some([asked |-> [f \in FinerFields |-> None],
                      own |-> [f \in FinerFields |-> None]])
    /\ updates = 0
    /\ overlay2 = Config_default
    /\ merged = None
    /\ op = "new"
    /\ NoTokens
    /\ NoScan

\* cfg.update(&source), once more
UpdateWalk ==
    /\ updates < MaxUpdates
    /\ \E source \in WalkConfigs :
          /\ cfg' = Config_update(cfg, source)
          /\ latest' = Some([asked |-> Asked(latest[1].asked, source.files),
                             own |-> Own(latest[1].own, source.files)])
    /\ updates' = updates + 1
    /\ op' = "update"
    /\ UNCHANGED <<base, overlay, effective, overlay2, merged, tokenVars, scanVars>>

NextWalk == UpdateWalk

SpecWalk == InitWalk /\ [][NextWalk]_vars

---------------------------------------------------------------------------
(* Three documents a, b, c layered in two ways: a updated with b and then  *)
(* with c (UpdateInTurn), and a updated once with b already updated with c *)
(* (UpdateMerged).  Walk::update handles ignore_hidden and ignore_parent   *)
(* apart from the ignore_files / ignore_vcs / ignore_global chain, so the  *)
(* three Walks vary together either over every setting of ignore_files,    *)
(* ignore_dot, ignore_vcs and ignore_global, or over every setting of      *)
(* ignore_hidden, ignore_files and ignore_parent.                          *)

ChainWalks == {w \in Walk : w.ignore_hidden = None /\ w.ignore_parent = None}

SideWalks ==
    {w \in Walk : w.ignore_dot = None /\ w.ignore_vcs = None /\ w.ignore_global = None}

\* A Walk as the `files` of a document that sets nothing else.
FilesOnly(w) == [files |-> w, default |-> EngineConfig_default]

InitAssoc ==
    /\ \E family \in {ChainWalks, SideWalks} :
          /\ base \in {FilesOnly(w) : w \in family}
          /\ overlay \in {FilesOnly(w) : w \in family}
          /\ overlay2 \in {FilesOnly(w) : w \in family}
    /\ cfg = base
    /\ merged = None
    /\ effective = None
    /\ latest = None
    /\ updates = 0
    /\ op = "new"
    /\ NoTokens
    /\ NoScan

\* cfg.update(&overlay); cfg.update(&overlay2)
UpdateInTurn ==
    /\ op = "new"
    /\ cfg' = Config_update(Config_update(cfg, overlay), overlay2)
    /\ op' = "in_turn"
    /\ UNCHANGED <<base, overlay, overlay2, merged, effective, latest, updates,
                   tokenVars, scanVars>>

\* overlay.update(&overlay2); base.update(&overlay), on copies of the three
UpdateMerged ==
    /\ op = "in_turn"
    /\ merged' = Some(Config_update(base, Config_update(overlay, overlay2)))
    /\ op' = "merged"
    /\ UNCHANGED <<cfg, base, overlay, overlay2, effective, latest, updates,
                   tokenVars, scanVars>>

NextAssoc == UpdateInTurn \/ UpdateMerged

SpecAssoc == InitAssoc /\ [][NextAssoc]_vars

---------------------------------------------------------------------------
(* C1: after update(base, overlay), if the overlay sets ignore_files then  *)
(* ignore_dot, ignore_vcs, ignore_global and ignore_parent each hold       *)
(* exactly the overlay's own value (unset when the overlay leaves it       *)
(* unset), whatever the base held; and if the overlay sets ignore_vcs then *)
(* ignore_global holds exactly the overlay's own ignore_global.            *)
C1_ResetOnCoarseOverride ==
    op = "update" =>
        /\ IsSome(overlay.files.ignore_files) =>
               \A f \in FinerFields : cfg.files[f] = overlay.files[f]
        /\ IsSome(overlay.files.ignore_vcs) =>
               cfg.files.ignore_global = overlay.files.ignore_global

\* A base with every finer field set, overlaid by a document that sets only
\* ignore_files: the four finer fields are unset in the result.
C1_Witness ==
    /\ op = "update"
    /\ \A f \in FinerFields : base.files[f] = Some(TRUE)
    /\ overlay.files = [Walk_default EXCEPT !.ignore_files = Some(FALSE)]
    /\ \A f \in FinerFields : cfg.files[f] = None

(* C2: the effective accessors follow the precedence chains, for every     *)
(* Walk: ignore_hidden = own else true; ignore_dot = own else ignore_files *)
(* else true; ignore_vcs = own else ignore_files else true; ignore_global  *)
(* = own else ignore_vcs else ignore_files else true; ignore_parent = own  *)
(* else ignore_files else true.  A Walk with only ignore_files = false set *)
(* resolves ignore_dot, ignore_vcs, ignore_global, ignore_parent to false. *)
C2_AccessorPrecedence ==
    IsSome(effective) =>
        LET w == cfg.files
            e == effective[1]
        IN  /\ e.ignore_hidden = FirstSet(<<w.ignore_hidden>>, TRUE)
            /\ e.ignore_dot = FirstSet(<<w.ignore_dot, w.ignore_files>>, TRUE)
            /\ e.ignore_vcs = FirstSet(<<w.ignore_vcs, w.ignore_files>>, TRUE)
            /\ e.ignore_global =
                   FirstSet(<<w.ignore_global, w.ignore_vcs, w.ignore_files>>, TRUE)
            /\ e.ignore_parent = FirstSet(<<w.ignore_parent, w.ignore_files>>, TRUE)
            /\ w = [Walk_default EXCEPT !.ignore_files = Some(FALSE)] =>
                   \A f \in FinerFields : e[f] = FALSE

\* ignore_global falls through to ignore_vcs although ignore_files says
\* otherwise.
C2_Witness ==
    /\ IsSome(effective)
    /\ cfg.files.ignore_global = None
    /\ cfg.files.ignore_vcs = Some(FALSE)
    /\ cfg.files.ignore_files = Some(TRUE)
    /\ effective[1].ignore_global = FALSE
    /\ effective[1].ignore_dot = TRUE

(* C3: in every update, a scalar optional field that the overlay sets      *)
(* holds the overlay's value in the result, for every base and whatever    *)
(* other fields the overlay sets (a coarse Walk field together with a      *)
(* finer one included).                                                    *)
C3_OverlayValueWins ==
    op = "update" =>
        \A f \in ScalarFields :
            IsSome(Scalar(overlay, f)) => Scalar(cfg, f) = Scalar(overlay, f)

\* The overlay sets ignore_files, ignore_vcs and ignore_global at once, over a
\* base that held another ignore_global.
C3_Witness ==
    /\ op = "update"
    /\ overlay.files.ignore_files = Some(TRUE)
    /\ overlay.files.ignore_vcs = Some(TRUE)
    /\ overlay.files.ignore_global = Some(FALSE)
    /\ base.files.ignore_global = Some(TRUE)
    /\ cfg.files.ignore_global = Some(FALSE)

(* C4: frame of update.  A scalar field that the overlay leaves unset is   *)
(* unchanged from the base: every EngineConfig and TokenizerConfig field,  *)
(* DictConfig.locale, Walk.ignore_hidden and Walk.ignore_files, and a      *)
(* finer Walk field whenever the overlay sets no coarser field governing   *)
(* it.  An overlay with nothing set leaves the whole Config unchanged: the *)
(* all-unset Config::default() leaves it identical, and an overlay whose   *)
(* sections are present but empty leaves every field and map as it was.    *)
C4_UpdateFrame ==
    op = "update" =>
        /\ \A f \in ScalarFields :
               (/\ Scalar(overlay, f) = None
                /\ \A g \in Coarser(f) : overlay.files[g] = None)
                   => Scalar(cfg, f) = Scalar(base, f)
        /\ overlay = Config_default => cfg = base
        /\ (/\ \A f \in ScalarFields : Scalar(overlay, f) = None
            /\ \A m \in MapFields : DictOf(overlay)[m] = {})
               => /\ \A f \in ScalarFields : Scalar(cfg, f) = Scalar(base, f)
                  /\ \A m \in MapFields : DictOf(cfg)[m] = DictOf(base)[m]

\* The overlay's tokenizer section sets one field; the base's other tokenizer
\* field survives.
C4_Witness ==
    /\ op = "update"
    /\ IsSome(overlay.default.tokenizer)
    /\ TokenizerOf(overlay).ignore_hex = Some(FALSE)
    /\ TokenizerOf(overlay).identifier_leading_chars = None
    /\ TokenizerOf(base).identifier_leading_chars = Some("_'")
    /\ TokenizerOf(cfg).identifier_leading_chars = Some("_'")
    /\ TokenizerOf(cfg).ignore_hex = Some(FALSE)

(* C5: DictConfig::update unions the maps.  After update(base, overlay),   *)
(* extend_identifiers (and likewise extend_words) has exactly the keys of  *)
(* base union overlay; each key present in the overlay maps to the         *)
(* overlay's value, each key only in the base keeps the base's value, and  *)
(* keys stay unique.                                                       *)
C5_MapUnion ==
    op = "update" =>
        \A m \in MapFields :
            LET b == DictOf(base)[m]
                o == DictOf(overlay)[m]
                r == DictOf(cfg)[m]
            IN  /\ HashMap_keys(r) = HashMap_keys(b) \cup HashMap_keys(o)
                /\ \A k \in HashMap_keys(o) :
                       {e \in r : e[1] = k} = {e \in o : e[1] = k}
                /\ \A k \in HashMap_keys(b) \ HashMap_keys(o) :
                       {e \in r : e[1] = k} = {e \in b : e[1] = k}
                /\ Cardinality(r) = Cardinality(HashMap_keys(r))

\* A key collision with different values, next to a key only the base has.
C5_Witness ==
    /\ op = "update"
    /\ DictOf(base).extend_words = {<<"teh", "he">>, <<"hte", "he">>}
    /\ IsSome(overlay.default.dict)
    /\ DictOf(overlay).extend_words = {<<"teh", "the">>}
    /\ DictOf(cfg).extend_words = {<<"teh", "the">>, <<"hte", "he">>}

(* C6: updating Config::default() (every field unset, maps empty) with any *)
(* overlay yields a configuration in which every field the overlay sets    *)
(* holds the overlay's value and every other field holds the default's,    *)
(* the tokenizer and dictionary sections and all six Walk fields included. *)
C6_UpdateOfDefault ==
    (op = "update" /\ base = Config_default) =>
        /\ \A f \in ScalarFields :
               Scalar(cfg, f) = IF IsSome(Scalar(overlay, f))
                                 THEN Scalar(overlay, f)
                                 ELSE Scalar(Config_default, f)
        /\ \A m \in MapFields :
               \A k \in MapKeys :
                   HashMap_get(DictOf(cfg)[m], k) =
                       IF k \in HashMap_keys(DictOf(overlay)[m])
                       THEN HashMap_get(DictOf(overlay)[m], k)
                       ELSE HashMap_get(DictOf(Config_default)[m], k)

\* The default configuration overlaid by a document that sets fields of every
\* section.
C6_Witness ==
    /\ op = "update"
    /\ base = Config_default
    /\ overlay.files.ignore_files = Some(FALSE)
    /\ overlay.files.ignore_global = Some(TRUE)
    /\ overlay.default.check_file = Some(FALSE)
    /\ TokenizerOf(overlay).ignore_hex = Some(FALSE)
    /\ DictOf(overlay).locale = Some("EnGb")
    /\ cfg = overlay

(* C7: Config::from_defaults() sets every optional field of Walk,          *)
(* EngineConfig, TokenizerConfig and DictConfig explicitly, and each       *)
(* effective accessor on it returns the same value as on the fully unset   *)
(* Config::default(): the Walk flags true, binary false, check_filename    *)
(* true, check_file true, ignore_hex true, identifier_leading_digits       *)
(* false, identifier_leading_chars "_", identifier_include_digits true,    *)
(* identifier_include_chars "_'", locale En.                               *)
C7_FromDefaults ==
    op \in {"from_defaults", "resolve_defaults"} =>
        /\ \A f \in WalkFields : cfg.files[f] = Some(TRUE)
        /\ \A f \in FlagFields : IsSome(cfg.default[f])
        /\ IsSome(cfg.default.tokenizer)
        /\ IsSome(cfg.default.dict)
        /\ \A f \in ScalarFields : IsSome(Scalar(cfg, f))
        /\ Effective(cfg.files) = Effective(Walk_default)
        /\ Effective(cfg.files) = [f \in DOMAIN Effective(Walk_default) |-> TRUE]
        /\ op = "resolve_defaults" => effective = Some(Effective(Walk_default))
        /\ EngineConfig_binary(cfg.default) = FALSE
        /\ EngineConfig_binary(EngineConfig_default) = FALSE
        /\ EngineConfig_check_filename(cfg.default) = TRUE
        /\ EngineConfig_check_filename(EngineConfig_default) = TRUE
        /\ EngineConfig_check_file(cfg.default) = TRUE
        /\ EngineConfig_check_file(EngineConfig_default) = TRUE
        /\ LET t == cfg.default.tokenizer[1]
               d == TokenizerConfig_default
           IN  /\ TokenizerConfig_ignore_hex(t) = TRUE
               /\ TokenizerConfig_ignore_hex(d) = TRUE
               /\ TokenizerConfig_identifier_leading_digits(t) = FALSE
               /\ TokenizerConfig_identifier_leading_digits(d) = FALSE
               /\ TokenizerConfig_identifier_leading_chars(t) = "_"
               /\ TokenizerConfig_identifier_leading_chars(d) = "_"
               /\ TokenizerConfig_identifier_include_digits(t) = TRUE
               /\ TokenizerConfig_identifier_include_digits(d) = TRUE
               /\ TokenizerConfig_identifier_include_chars(t) = "_'"
               /\ TokenizerConfig_identifier_include_chars(d) = "_'"
        /\ DictConfig_locale(cfg.default.dict[1]) = "En"
        /\ DictConfig_locale(DictConfig_default) = "En"

\* from_defaults() replaced a configuration that had ignore_files = false, and
\* the accessors were then read from it.
C7_Witness ==
    /\ op = "resolve_defaults"
    /\ base.files.ignore_files = Some(FALSE)
    /\ cfg.files.ignore_files = Some(TRUE)
    /\ cfg.default.tokenizer[1].identifier_include_chars = Some("_'")
    /\ effective[1].ignore_global = TRUE

---------------------------------------------------------------------------
(* What the claims about the tokenizer speak of.                           *)

\* A member character, in the words of the specification: alphabetic of any
\* script, a decimal digit, or an underscore.
MemberChar(c) ==
    \/ c \in LowerAscii \cup UpperAscii \cup {"e_acute", "zhong"}
    \/ c \in DigitAscii \cup {"arabic3"}
    \/ c = "_"

\* A word character that is no member: a combining mark, connector
\* punctuation other than "_", a join control.
OtherWordChar(c) == c = "acute"

\* The maximal runs of member characters of s, as <<first, last>> indexes.
MaximalRuns(s) ==
    {r \in (1..Len(s)) \X (1..Len(s)) :
        /\ r[1] <= r[2]
        /\ \A k \in r[1]..r[2] : MemberChar(s[k])
        /\ r[1] = 1 \/ ~MemberChar(s[r[1] - 1])
        /\ r[2] = Len(s) \/ ~MemberChar(s[r[2] + 1])}

\* The maximal runs with no word character next to them.
IsolatedRuns(s) ==
    {r \in MaximalRuns(s) :
        /\ r[1] = 1 \/ ~OtherWordChar(s[r[1] - 1])
        /\ r[2] = Len(s) \/ ~OtherWordChar(s[r[2] + 1])}

\* The Symbol of the run r of s.
RunSymbol(s, r) == [token |-> SubSeq(s, r[1], r[2]), offset |-> ByteOffset(s, r[1])]

Range(f) == {f[x] : x \in DOMAIN f}

\* What separates Symbols and what does not, on the buffers of the tests.
SeparatorCases ==
    /\ buffer = <<>> => symbols = <<>>
    /\ buffer = <<"A", "_", "B">> =>
           symbols = <<[token |-> <<"A", "_", "B">>, offset |-> 0]>>
    /\ buffer = <<"A", " ", "B">> =>
           symbols = <<[token |-> <<"A">>, offset |-> 0],
                       [token |-> <<"B">>, offset |-> 2]>>
    /\ buffer = <<"A", ".", "B">> =>
           symbols = <<[token |-> <<"A">>, offset |-> 0],
                       [token |-> <<"B">>, offset |-> 2]>>
    /\ buffer = <<"A", ":", ":", "B">> =>
           symbols = <<[token |-> <<"A">>, offset |-> 0],
                       [token |-> <<"B">>, offset |-> 3]>>

RECURSIVE Concat(_)
Concat(ws) == IF ws = <<>> THEN <<>> ELSE Head(ws).token \o Concat(Tail(ws))

Cased(c) == is_lowercase(c) \/ is_uppercase(c)

InWord(c) == Cased(c) \/ is_ascii_digit(c)

\* The Words ws are a lossless partition of the non-boundary characters of
\* the Symbol s.
LosslessPartition(s, ws) ==
    LET rel(n) == ws[n].offset - s.offset
        covering(b) ==
            {n \in 1..Len(ws) : rel(n) <= b /\ b < rel(n) + ByteLen(ws[n].token)}
    IN  /\ \A n \in 1..Len(ws) : ws[n].token # <<>>
        /\ \A n \in 1..(Len(ws) - 1) :
               /\ ws[n].offset < ws[n + 1].offset
               /\ ws[n].offset + ByteLen(ws[n].token) <= ws[n + 1].offset
        /\ \A n \in 1..Len(ws) :
               /\ rel(n) >= 0
               /\ SliceOk(s.token, rel(n), rel(n) + ByteLen(ws[n].token))
               /\ Slice(s.token, rel(n), rel(n) + ByteLen(ws[n].token)) = ws[n].token
        /\ \A k \in 1..Len(s.token) :
               IF InWord(s.token[k])
               THEN Cardinality(covering(ByteOffset(s.token, k))) = 1
               ELSE covering(ByteOffset(s.token, k)) = {}
        /\ \A n \in 1..Len(ws) : \A k \in 1..Len(ws[n].token) : InWord(ws[n].token[k])
        /\ Concat(ws) = SelectSeq(s.token, InWord)

---------------------------------------------------------------------------
(* C8: for every buffer, the Symbols that Symbol::parse yields have        *)
(* strictly increasing offsets, occupy non-overlapping byte ranges         *)
(* [offset, offset + len), and each Symbol's text is non-empty and         *)
(* consists only of alphabetic, decimal-digit or underscore characters.    *)
C8_SymbolsOrdered ==
    op \in {"parse", "split"} =>
        /\ \A n \in 1..Len(symbols) :
               /\ symbols[n].token # <<>>
               /\ \A k \in 1..Len(symbols[n].token) : MemberChar(symbols[n].token[k])
        /\ \A n \in 1..(Len(symbols) - 1) :
               /\ symbols[n].offset < symbols[n + 1].offset
               /\ symbols[n].offset + ByteLen(symbols[n].token) <= symbols[n + 1].offset

\* Two Symbols, the first of a character of three bytes.
C8_Witness ==
    /\ op = "parse"
    /\ buffer = <<"zhong", "_", " ", "a">>
    /\ symbols = <<[token |-> <<"zhong", "_">>, offset |-> 0],
                   [token |-> <<"a">>, offset |-> 5]>>

(* C9, as claimed: Symbol::parse yields exactly the maximal runs of member *)
(* characters of the buffer; every maximal run bounded on each side by a   *)
(* non-member character or a buffer edge is yielded once, as one Symbol    *)
(* whose text is the whole run and whose offset is the byte index of the   *)
(* run's first character; an underscore never separates two Symbols, while *)
(* space, '.' and ':' do; the empty buffer yields nothing.                 *)
C9_MaximalRuns ==
    op \in {"parse", "split"} =>
        /\ Range(symbols) = {RunSymbol(buffer, r) : r \in MaximalRuns(buffer)}
        /\ Len(symbols) = Cardinality(MaximalRuns(buffer))
        /\ SeparatorCases

(* C9, amended: Symbol::parse yields exactly the maximal runs of member    *)
(* characters that have, on each side, a buffer edge or a character that   *)
(* is no word character (neither a member nor a combining mark, connector  *)
(* punctuation or join control); each is yielded once, whole, at the byte  *)
(* index of its first character.  A maximal run next to a word character   *)
(* that is no member yields no Symbol, in whole or in part.  An underscore *)
(* never separates two Symbols, while space, '.' and ':' do; the empty     *)
(* buffer yields nothing.                                                  *)
C9_IsolatedRuns ==
    op \in {"parse", "split"} =>
        /\ Range(symbols) = {RunSymbol(buffer, r) : r \in IsolatedRuns(buffer)}
        /\ Len(symbols) = Cardinality(IsolatedRuns(buffer))
        /\ SeparatorCases

\* The run "a" is followed by a combining mark and is not yielded; the run
\* "B" stands alone and is.
C9_Witness ==
    /\ op = "parse"
    /\ buffer = <<"a", "acute", " ", "B">>
    /\ symbols = <<[token |-> <<"B">>, offset |-> 4]>>

(* C10: the Words produced by splitting one Symbol form a lossless         *)
(* partition of its non-boundary characters: the Words are non-empty,      *)
(* non-overlapping and in strictly increasing offset order; each Word's    *)
(* text is the Symbol's text at byte position word.offset - symbol.offset; *)
(* every cased or ASCII-digit character of the Symbol lies in exactly one  *)
(* Word; no boundary character lies in any Word; so concatenating the      *)
(* Words in order gives the Symbol's text with the boundary characters     *)
(* removed.                                                                *)
C10_LosslessPartition ==
    op = "split" =>
        /\ ~words[1].panicked
        /\ LosslessPartition(sym[1], words[1].words)

\* The partition holds of every split that returns: C10 fails only where
\* split_symbol panics.
PartitionUnlessPanic ==
    (op = "split" /\ ~words[1].panicked) => LosslessPartition(sym[1], words[1].words)


---------------------------------------------------------------------------
(* The case-transition rules, as the claims state them.                    *)

\* A word break between the k-th character of the text s and the next one.
BreakAfter(s, k) ==
    LET cur == classify(s[k])
        next == classify(s[k + 1])
    IN  \/ cur # "Boundary" /\ next = "Boundary"
        \/ cur \in {"Lowercase", "Uppercase"} /\ next = "Number"
        \/ cur = "Number" /\ next \in {"Lowercase", "Uppercase"}
        \/ cur = "Lowercase" /\ next = "Uppercase"
        \/ /\ cur = "Uppercase"
           /\ next = "Uppercase"
           /\ k + 2 <= Len(s)
           /\ classify(s[k + 2]) = "Lowercase"

\* The stretches <<first, last>> of s that the rules make words: no boundary
\* character and no break inside, and a break, a boundary character or an
\* edge of s on each side.
WordRuns(s) ==
    {r \in (1..Len(s)) \X (1..Len(s)) :
        /\ r[1] <= r[2]
        /\ \A k \in r[1]..r[2] : classify(s[k]) # "Boundary"
        /\ \A k \in r[1]..(r[2] - 1) : ~BreakAfter(s, k)
        /\ r[1] = 1 \/ classify(s[r[1] - 1]) = "Boundary" \/ BreakAfter(s, r[1] - 1)
        /\ r[2] = Len(s) \/ BreakAfter(s, r[2])}

\* The Word of the stretch r of the Symbol s.
RunWord(s, r) ==
    [token |-> SubSeq(s.token, r[1], r[2]),
     offset |-> s.offset + ByteOffset(s.token, r[1])]

\* The Words ws break the Symbol s exactly where the rules say.
BreaksByRule(s, ws) ==
    /\ Range(ws) = {RunWord(s, r) : r \in WordRuns(s.token)}
    /\ Len(ws) = Cardinality(WordRuns(s.token))
    /\ \A n \in 1..(Len(ws) - 1) : ws[n].offset < ws[n + 1].offset

\* The texts of the Words ws, in order.
Tokens(ws) == [n \in 1..Len(ws) |-> ws[n].token]

(* C11: for every Symbol over lowercase, uppercase, digit and boundary     *)
(* characters, split_symbol places word breaks exactly where the           *)
(* case-transition rules say: after a character followed by a boundary     *)
(* character; between a letter and a digit in either order; between a      *)
(* lowercase and a following uppercase; inside a run of uppercase letters  *)
(* followed by a lowercase, immediately before the last uppercase letter;  *)
(* nowhere else.  Hence PDFLoader -> PDF, Loader and the other cases of    *)
(* test::split_symbol.                                                     *)
C11_BreaksByRule ==
    op = "split" =>
        /\ ~words[1].panicked
        /\ BreaksByRule(sym[1], words[1].words)
        /\ \A c \in SplitCases :
               sym[1].token = c[1] => Tokens(words[1].words) = c[2]

\* The breaks are where the rules say in every split that returns: C11
\* fails only where split_symbol panics.
BreaksUnlessPanic ==
    (op = "split" /\ ~words[1].panicked) =>
        /\ BreaksByRule(sym[1], words[1].words)
        /\ \A c \in SplitCases :
               sym[1].token = c[1] => Tokens(words[1].words) = c[2]

---------------------------------------------------------------------------
(* What the claims about the strict constructors speak of.                 *)

\* The error of the first of the three checks that `items` fails, else "":
\* none found, then padding found, then more than one.
FirstFailure(items) ==
    IF items = <<>> THEN "none found"
    ELSE IF items[1].offset # 0 THEN "padding found"
    ELSE IF Len(items) >= 2 THEN "contains more than one"
    ELSE ""

\* The outcome o is the failure `failure` of the constructor of a `what`.
Fails(o, what, failure) ==
    /\ o.kind = "Err"
    /\ o.err = "Invalid " \o what \o " (" \o failure \o ")"

\* The outcome o is the success that returns the only one of `items`, with
\* the offset off.
Returns(o, items, off) ==
    /\ o.kind = "Ok"
    /\ Len(items) = 1
    /\ o.value = Some([token |-> items[1].token, offset |-> off])

\* The outcome o is what the three checks give on `items`.
Classifies(o, what, items, off) ==
    /\ Fails(o, what, "none found") <=> items = <<>>
    /\ items # <<>> =>
           /\ Fails(o, what, "padding found") <=> items[1].offset # 0
           /\ items[1].offset = 0 =>
                  /\ Fails(o, what, "contains more than one") <=> Len(items) >= 2
                  /\ Len(items) < 2 => Returns(o, items, off)

(* C12: the strict constructors classify their input in a fixed            *)
(* precedence.  Symbol::new(text, off) fails with 'none found' iff         *)
(* Symbol::parse(text) yields nothing, otherwise with 'padding found' iff  *)
(* the first Symbol's offset is not 0, otherwise with 'more than one' iff  *)
(* a second Symbol exists, and otherwise succeeds returning that Symbol    *)
(* with offset off.  Word::new(text, off) first fails whenever             *)
(* Symbol::new(text, off) fails, then applies the same three checks in the *)
(* same order to the Words of split_symbol(text), and on success returns   *)
(* the single Word with offset off.                                        *)
C12_StrictPrecedence ==
    /\ op = "symbol_new" =>
           Classifies(made[1].outcome, "symbol", Symbol_parse(made[1].token),
                      made[1].offset)
    /\ op = "word_new" =>
           LET o == made[1].outcome
               parsed == Symbol_parse(made[1].token)
               split == split_symbol(made[1].token, 0)
           IN  /\ o.kind \in {"Ok", "Err"}
               /\ FirstFailure(parsed) # "" => Fails(o, "symbol", FirstFailure(parsed))
               /\ FirstFailure(parsed) = "" =>
                      Classifies(o, "word", split.words, made[1].offset)

\* The precedence holds of every call that returns: C12 fails only where
\* the split inside Word::new panics.
PrecedenceUnlessPanic ==
    /\ op = "symbol_new" =>
           Classifies(made[1].outcome, "symbol", Symbol_parse(made[1].token),
                      made[1].offset)
    /\ (op = "word_new" /\ made[1].outcome.kind # "Panic") =>
           LET o == made[1].outcome
               parsed == Symbol_parse(made[1].token)
               split == split_symbol(made[1].token, 0)
           IN  /\ FirstFailure(parsed) # "" => Fails(o, "symbol", FirstFailure(parsed))
               /\ FirstFailure(parsed) = "" =>
                      Classifies(o, "word", split.words, made[1].offset)

(* C13: Symbol::new(text, off) returns Ok only when the text is exactly    *)
(* one identifier: whenever it succeeds, the returned Symbol's text equals *)
(* the entire input text (no leading and no trailing non-member            *)
(* characters were accepted) and its offset equals off.                    *)
C13_ExactlyOneIdentifier ==
    (op = "symbol_new" /\ made[1].outcome.kind = "Ok") =>
        /\ made[1].outcome.value[1].token = made[1].token
        /\ made[1].outcome.value[1].offset = made[1].offset

\* What Symbol::new does guarantee: the returned text is the input up to
\* its first character that is no member, and nothing behind that
\* character is a Symbol.
OneIdentifierThenPadding ==
    (op = "symbol_new" /\ made[1].outcome.kind = "Ok") =>
        LET text == made[1].token
            got == made[1].outcome.value[1]
        IN  /\ got.offset = made[1].offset
            /\ got.token # <<>>
            /\ got.token = SubSeq(text, 1, Len(got.token))
            /\ \A k \in 1..Len(got.token) : MemberChar(text[k])
            /\ Len(got.token) < Len(text) => ~MemberChar(text[Len(got.token) + 1])
            /\ Symbol_parse(text) = <<[token |-> got.token, offset |-> 0]>>

(* C14: splitting is idempotent on its own output: for every Word w        *)
(* produced by splitting any Symbol, Word::new(w.text, 0) succeeds and     *)
(* returns the Word with text w.text and offset 0.                         *)
C14_ResplitIsIdentity ==
    op = "resplit" =>
        /\ made[1].outcome.kind = "Ok"
        /\ made[1].outcome.value = Some([token |-> made[1].token, offset |-> 0])

\* "PDF", cut out of "PDFLoader" before the last capital of the run, is one
\* Word again.
C14_Witness ==
    /\ op = "resplit"
    /\ sym = Some([token |-> <<"P", "D", "F", "L", "o", "a", "d", "e", "r">>,
                   offset |-> 0])
    /\ made[1].token = <<"P", "D", "F">>
    /\ made[1].outcome = Ok([token |-> <<"P", "D", "F">>, offset |-> 0])

---------------------------------------------------------------------------
(* What the claims about process_file speak of.                            *)

\* The lines of the bytes b, delimited by linefeed, as <<first, last>>
\* indexes: a line starts at the start of b or after a linefeed, and ends
\* with the next linefeed or with b.
LinesOf(b) ==
    {r \in (1..Len(b)) \X (1..Len(b)) :
        /\ r[1] <= r[2]
        /\ r[1] = 1 \/ b[r[1] - 1] = "\n"
        /\ \A k \in r[1]..(r[2] - 1) : b[k] # "\n"
        /\ r[2] = Len(b) \/ b[r[2]] = "\n"}

\* The 1-based index of the line r of b.
LineNum(b, r) == Cardinality({q \in LinesOf(b) : q[1] <= r[1]})

\* The Symbols of the file b for which the dictionary d has a correction, as
\* <<line, index of the Symbol in its line>>.
Corrected(b, d) ==
    {h \in LinesOf(b) \X (1..Len(b)) :
        /\ h[2] <= Len(Symbol_parse(SubSeq(b, h[1][1], h[1][2])))
        /\ \E e \in d : e[1] = Symbol_parse(SubSeq(b, h[1][1], h[1][2]))[h[2]].token}

\* The Message the claim gives the Symbol h of the file b.
MessageOf(b, d, h) ==
    LET line == SubSeq(b, h[1][1], h[1][2])
        symbol == Symbol_parse(line)[h[2]]
    IN  [path |-> "path",
         line |-> line,
         line_num |-> LineNum(b, h[1]),
         col_num |-> symbol.offset,
         word |-> symbol.token,
         correction |-> (CHOOSE e \in d : e[1] = symbol.token)[2]]

\* m comes before n in (line_num, col_num) lexicographic order.
Before(m, n) ==
    \/ m.line_num < n.line_num
    \/ m.line_num = n.line_num /\ m.col_num < n.col_num

(* C15: for a readable file, process_file emits exactly one Message per    *)
(* Symbol (extracted line by line, lines delimited by linefeed) for which  *)
(* the correction capability, queried with the whole Symbol text and never *)
(* with sub-words, returns a correction, and no Message for any other      *)
(* Symbol; each Message carries the enclosing line's bytes, line_num equal *)
(* to the 1-based index of that line, col_num equal to the Symbol's byte   *)
(* offset within that line, the Symbol text as word, and the returned      *)
(* correction.                                                             *)
C15_OneMessagePerCorrection ==
    (pc = "done" /\ file.status = "ok") =>
        /\ returned = Some(Ok(<<>>))
        /\ Range(reported) =
               {MessageOf(file.bytes, dictionary, h) :
                   h \in Corrected(file.bytes, dictionary)}
        /\ Len(reported) = Cardinality(Corrected(file.bytes, dictionary))

\* A file of two lines: "a" on the second line, behind a character of three
\* bytes, is corrected; "aB" is not looked up by its sub-word "a".
C15_Witness ==
    /\ pc = "done"
    /\ file = [status |-> "ok", bytes |-> <<"\n", "zhong", " ", "a">>]
    /\ dictionary = {<<<<"a">>, <<"b">>>>}
    /\ reported = <<[path |-> "path", line |-> <<"zhong", " ", "a">>, line_num |-> 2,
                     col_num |-> 4, word |-> <<"a">>, correction |-> <<"b">>]>>

(* C16, as claimed: for a single-line file "HTML is rendred here" and a    *)
(* correction capability that maps only "rendred" to "rendered",           *)
(* process_file yields exactly one Message, with word = "rendred",         *)
(* correction = "rendered", line_num = 1 and col_num = 9.                  *)
C16_RendredAtColumn9 ==
    (pc = "done" /\ file = [status |-> "ok", bytes |-> RendredLine]
                 /\ dictionary = RendredDictionary) =>
        /\ Len(reported) = 1
        /\ reported[1].word = <<"r", "e", "n", "d", "r", "e", "d">>
        /\ reported[1].correction = <<"r", "e", "n", "d", "e", "r", "e", "d">>
        /\ reported[1].line_num = 1
        /\ reported[1].col_num = 9

(* C16, amended: for a single-line file "HTML is rendred here" and a       *)
(* correction capability that maps only "rendred" to "rendered",           *)
(* process_file yields exactly one Message, with word = "rendred",         *)
(* correction = "rendered", line_num = 1 and col_num = 8, the byte offset  *)
(* of "rendred" in the line.                                               *)
C16_RendredAtColumn8 ==
    (pc = "done" /\ file = [status |-> "ok", bytes |-> RendredLine]
                 /\ dictionary = RendredDictionary) =>
        /\ Len(reported) = 1
        /\ reported[1].word = <<"r", "e", "n", "d", "r", "e", "d">>
        /\ reported[1].correction = <<"r", "e", "n", "d", "e", "r", "e", "d">>
        /\ reported[1].line_num = 1
        /\ reported[1].col_num = 8

\* The scan of the example file has returned, one Message reported.
C16_Witness ==
    /\ pc = "done"
    /\ returned = Some(Ok(<<>>))
    /\ file = [status |-> "ok", bytes |-> RendredLine]
    /\ dictionary = RendredDictionary
    /\ Len(reported) = 1
    /\ reported[1].line = RendredLine

(* C17: within one file, for any content and any correction capability,    *)
(* the sequence of Messages handed to the report sink is strictly          *)
(* increasing in (line_num, col_num) lexicographic order: every later      *)
(* Message has a greater line_num, or the same line_num and a greater      *)
(* col_num.                                                                *)
C17_MessagesInOrder ==
    \A m \in 1..Len(reported) : \A n \in 1..Len(reported) :
        m < n => Before(reported[m], reported[n])

\* A Message of the second line, at column 0, follows a Message of the first
\* line at column 1: the line number orders them, not the column.
C17_Witness ==
    /\ Len(reported) = 2
    /\ reported[1].line_num = 1
    /\ reported[1].col_num = 1
    /\ reported[2].line_num = 2
    /\ reported[2].col_num = 0

(* C18: if opening or reading the file fails, process_file returns an      *)
(* error and the report sink has been invoked zero times; the report sink  *)
(* is only ever invoked after the entire file content has been read        *)
(* successfully.                                                           *)
C18_NothingReportedOnFailure ==
    /\ (pc = "done" /\ file.status # "ok") =>
           /\ returned # None
           /\ returned[1].kind = "Err"
           /\ reported = <<>>
    /\ reported # <<>> =>
           /\ file.status = "ok"
           /\ pc \in {"scan", "done"}
           /\ file_buffer = file.bytes

\* The read failed after bytes that hold a Symbol the dictionary corrects:
\* the error is returned and nothing is reported.
C18_Witness ==
    /\ pc = "done"
    /\ file = [status |-> "read fails", bytes |-> <<"a", " ", "a">>]
    /\ file_buffer = <<"a", " ">>
    /\ dictionary = {<<<<"a">>, <<"b">>>>}
    /\ returned = Some(Err("io::Error"))
    /\ reported = <<>>

---------------------------------------------------------------------------
(* C19: splitting never fails for any Symbol that Symbol::parse can        *)
(* produce, including Symbols that contain uncased alphabetic characters   *)
(* or non-ASCII digits encoded in more than one byte (which classify as    *)
(* Boundary): leading and interior boundary characters of any byte width   *)
(* are skipped in full, so every Word starts at the first byte of a cased  *)
(* or ASCII-digit character, every slice taken lies on character           *)
(* boundaries of the Symbol, and no boundary character appears in any      *)
(* Word.                                                                   *)
C19_SplitNeverFails ==
    op = "split" =>
        /\ ~words[1].panicked
        /\ \A n \in 1..Len(words[1].words) :
               LET word == words[1].words[n]
                   from == word.offset - sym[1].offset
               IN  /\ is_char_boundary(sym[1].token, from)
                   /\ is_char_boundary(sym[1].token, from + ByteLen(word.token))
                   /\ word.token # <<>>
                   /\ InWord(word.token[1])
                   /\ \A k \in 1..Len(word.token) : classify(word.token[k]) # "Boundary"

\* The split panics only on a Symbol in which a boundary character of more
\* than one byte comes before a cased or ASCII-digit character, and on
\* every such Symbol.
PanicOnlyAfterWideBoundary ==
    op = "split" =>
        (words[1].panicked <=>
            \E j \in 1..Len(sym[1].token) : \E k \in 1..Len(sym[1].token) :
                /\ j < k
                /\ classify(sym[1].token[j]) = "Boundary"
                /\ len_utf8(sym[1].token[j]) > 1
                /\ InWord(sym[1].token[k]))

(* C20: after any sequence of Walk::update calls applied in order to an    *)
(* all-unset Walk, no effective flag is masked by a stale finer override:  *)
(* ignore_dot() (likewise ignore_parent()) equals the value given by the   *)
(* latest overlay that set ignore_dot (resp. ignore_parent) or             *)
(* ignore_files, taking that overlay's finer field if set and otherwise    *)
(* its ignore_files; ignore_vcs() likewise with ignore_vcs/ignore_files;   *)
(* ignore_global() equals the value from the latest overlay that set any   *)
(* of ignore_global, ignore_vcs, ignore_files, taking the first set of     *)
(* those in that order; each is true if no overlay ever set a relevant     *)
(* field.                                                                  *)
C20_NoStaleOverride ==
    IsSome(latest) =>
        /\ Walk_ignore_dot(cfg.files) = UnwrapOr(latest[1].asked.ignore_dot, TRUE)
        /\ Walk_ignore_parent(cfg.files) = UnwrapOr(latest[1].asked.ignore_parent, TRUE)
        /\ Walk_ignore_vcs(cfg.files) = UnwrapOr(latest[1].asked.ignore_vcs, TRUE)
        /\ Walk_ignore_global(cfg.files) = UnwrapOr(latest[1].asked.ignore_global, TRUE)

\* Three overlays: one set ignore_global = false and ignore_parent = true;
\* later ones, by setting ignore_vcs = true and ignore_files = false, asked
\* otherwise.  The stale finer values mask nothing.
C20_Witness ==
    /\ updates = 3
    /\ latest[1].own.ignore_global = Some(FALSE)
    /\ latest[1].own.ignore_parent = Some(TRUE)
    /\ cfg.files.ignore_vcs = Some(TRUE)
    /\ cfg.files.ignore_files = Some(FALSE)
    /\ Walk_ignore_global(cfg.files) = TRUE
    /\ Walk_ignore_parent(cfg.files) = FALSE

---------------------------------------------------------------------------
(* C21: Walk::update is associative over all Walk values: for every a, b,  *)
(* c, updating a with b and then with c gives the same six fields as       *)
(* updating a once with the Walk obtained by updating b with c, even       *)
(* though update resets finer fields on coarse overrides.                  *)
C21_UpdateAssociative ==
    op = "merged" =>
        \A f \in WalkFields : cfg.files[f] = merged[1].files[f]

\* a holds a finer override, b resets it by setting ignore_vcs, and c resets
\* b's ignore_vcs in turn by setting ignore_files: both ways leave only
\* ignore_files set.
C21_Witness ==
    /\ op = "merged"
    /\ base.files = [Walk_default EXCEPT !.ignore_global = Some(FALSE),
                                         !.ignore_dot = Some(TRUE)]
    /\ overlay.files = [Walk_default EXCEPT !.ignore_vcs = Some(TRUE)]
    /\ overlay2.files = [Walk_default EXCEPT !.ignore_files = Some(FALSE)]
    /\ cfg.files = [Walk_default EXCEPT !.ignore_files = Some(FALSE)]
    /\ merged[1].files = cfg.files

---------------------------------------------------------------------------
\* C22: Config::update is idempotent in its overlay: updating a
\* configuration with the same overlay twice in a row gives the same
\* configuration as updating it once, in every Walk field, every
\* EngineConfig flag, every TokenizerConfig field, the locale and both
\* DictConfig maps.
C22_UpdateIdempotent ==
    op = "update_again" =>
        /\ \A f \in WalkFields : cfg.files[f] = merged[1].files[f]
        /\ cfg.default = merged[1].default

\* A second update with an overlay that sets ignore_files over a base that
\* had only a finer field: the first update cleared the finer field, the
\* second finds it already cleared.
C22_Witness ==
    /\ op = "update_again"
    /\ base.files = [Walk_default EXCEPT !.ignore_parent = Some(TRUE)]
    /\ overlay.files = [Walk_default EXCEPT !.ignore_files = Some(FALSE),
                                            !.ignore_global = Some(TRUE)]
    /\ merged[1].files = overlay.files
    /\ cfg = merged[1]

\* A second update whose overlay carries dictionary entries: extending a
\* map with entries it already holds leaves it as it was.
C22_WitnessMaps ==
    /\ op = "update_again"
    /\ IsSome(overlay.default.dict)
    /\ overlay.default.dict[1].extend_words # {}
    /\ IsSome(base.default.dict)
    /\ base.default.dict[1].extend_words # {}
    /\ base.default.dict[1].extend_words # overlay.default.dict[1].extend_words
    /\ cfg = merged[1]


===========================================================================
